---- MODULE Spec2Model ----
(***************************************************************************)
(* A model of the link cell of the DataFrame grid                          *)
(* (frontend/lib/src/components/widgets/DataFrame/columns/cells/           *)
(* LinkCell.tsx): the display-value resolution, the renderer's draw,       *)
(* measure and onSelect, and the onDelete / onPaste / provideEditor        *)
(* transforms.                                                             *)
(*                                                                         *)
(* JavaScript strings are sequences of one-character strings.  The value   *)
(* undefined is the sequence Undefined, which is no string of the model's  *)
(* alphabets.  Pixel quantities are integers; the width of a text is its   *)
(* number of characters.                                                   *)
(***************************************************************************)
EXTENDS Integers, Sequences, FiniteSets

\* ---------------------------------------------------------------- bounds
MaxHrefLen == 2   \* longest href handed to getLinkDisplayValue directly
MaxPatLen == 4    \* longest displayText handed to getLinkDisplayValue directly
MaxTextLen == 1   \* longest text a grid cell holds, is pasted or is typed

\* ------------------------------------------------------------ JS values
Undefined == <<"undefined">>

\* String(v): what the canvas text calls make of their argument.
StringOf(v) ==
  IF v = Undefined THEN <<"u", "n", "d", "e", "f", "i", "n", "e", "d">> ELSE v

Strings(alphabet, n) == UNION {[1..k -> alphabet] : k \in 0..n}

SubString(s, from, to) == [i \in 1..(to - from) |-> s[from + i - 1]]

\* -------------------------------------------- new RegExp(displayText, "us")
\* The pattern grammar over the characters a b ( ) ? :
\*   Alternative ::= Term*          Term ::= Atom | Atom ? | Atom ??
\*   Atom ::= a | b | ( Alternative )
\* "(?" opens a non-capturing group, a lookaround or a named group only when
\* followed by : = ! or <, none of which is in the alphabet, so it is a
\* SyntaxError here; so are an unbalanced parenthesis and a quantifier with
\* nothing to repeat.
PatternCharacter == {"a", "b"}
SyntaxCharacter == {"(", ")", "?"}

RECURSIVE ParseAlternative(_, _, _, _)
RECURSIVE ParseTerm(_, _, _)

SyntaxError == [ok |-> FALSE]

\* the Alternative continued after its term t
ParseNext(p, acc, t) ==
  IF ~t.ok THEN SyntaxError
  ELSE ParseAlternative(p, t.pos, t.g, Append(acc, t.node))

\* the terms from position i up to the end of p or an unconsumed ")"
ParseAlternative(p, i, g, acc) ==
  IF i > Len(p) \/ p[i] = ")"
  THEN [ok |-> TRUE, terms |-> acc, pos |-> i, g |-> g]
  ELSE ParseNext(p, acc, ParseTerm(p, i, g))

\* the capturing group number idx of parsed body, closed by a ")"
ParseGroup(p, idx, body) ==
  IF body.ok /\ body.pos <= Len(p)
  THEN [ok |-> TRUE,
        node |-> [type |-> "group", idx |-> idx, body |-> body.terms],
        pos |-> body.pos + 1, g |-> body.g]
  ELSE SyntaxError

ParseAtom(p, i, g) ==
  IF p[i] \in PatternCharacter
  THEN [ok |-> TRUE, node |-> [type |-> "char", c |-> p[i]],
        pos |-> i + 1, g |-> g]
  ELSE IF p[i] = "(" /\ ~(i + 1 <= Len(p) /\ p[i + 1] = "?")
  THEN ParseGroup(p, g + 1, ParseAlternative(p, i + 1, g + 1, <<>>))
  ELSE SyntaxError

\* atom with the quantifier ? or ?? that follows it, if any; g is the number
\* of groups opened before the atom
ParseQuantifier(p, g, atom) ==
  IF ~atom.ok THEN SyntaxError
  ELSE IF atom.pos <= Len(p) /\ p[atom.pos] = "?"
  THEN [ok |-> TRUE,
        node |-> [type |-> "opt",
                  greedy |-> ~(atom.pos + 1 <= Len(p) /\ p[atom.pos + 1] = "?"),
                  atom |-> atom.node, lo |-> g + 1, hi |-> atom.g],
        pos |-> IF atom.pos + 1 <= Len(p) /\ p[atom.pos + 1] = "?"
                THEN atom.pos + 2 ELSE atom.pos + 1,
        g |-> atom.g]
  ELSE atom

ParseTerm(p, i, g) == ParseQuantifier(p, g, ParseAtom(p, i, g))

\* the pattern is the whole of p: a ")" left over is unmatched
ParsePattern(p, r) ==
  IF r.ok /\ r.pos > Len(p)
  THEN [ok |-> TRUE, terms |-> r.terms, ngroups |-> r.g]
  ELSE SyntaxError

\* The compiled pattern, or ok = FALSE where the constructor throws.
RegExpCompile(p) == ParsePattern(p, ParseAlternative(p, 1, 0, <<>>))

\* ------------------------------------------------- String.prototype.match
\* A backtracking matcher: each operator returns the successful end states
\* [pos, caps] in the order the engine tries them; the match is the first.
RECURSIVE MatchTerms(_, _, _, _, _)
RECURSIVE MatchTerm(_, _, _, _)
RECURSIVE MatchRest(_, _, _, _)
RECURSIVE SetCaps(_, _, _, _)
RECURSIVE NonEmpty(_, _)

MatchTerms(terms, k, s, pos, caps) ==
  IF k > Len(terms) THEN << [pos |-> pos, caps |-> caps] >>
  ELSE MatchRest(MatchTerm(terms[k], s, pos, caps), terms, k + 1, s)

MatchRest(rs, terms, k, s) ==
  IF rs = <<>> THEN <<>>
  ELSE MatchTerms(terms, k, s, Head(rs).pos, Head(rs).caps)
         \o MatchRest(Tail(rs), terms, k, s)

\* the results rs of a group's body matched from position from, with the
\* group's capture recorded
SetCaps(rs, idx, s, from) ==
  IF rs = <<>> THEN <<>>
  ELSE << [pos |-> Head(rs).pos,
           caps |-> [Head(rs).caps EXCEPT ![idx] =
                       SubString(s, from, Head(rs).pos)]] >>
         \o SetCaps(Tail(rs), idx, s, from)

\* RepeatMatcher: once the minimum is met, an iteration that consumed
\* nothing is rejected.
NonEmpty(rs, pos) ==
  IF rs = <<>> THEN <<>>
  ELSE (IF Head(rs).pos = pos THEN <<>> ELSE <<Head(rs)>>)
         \o NonEmpty(Tail(rs), pos)

\* RepeatMatcher clears the captures of the groups lo..hi inside the atom
ClearCaps(caps, lo, hi) ==
  [i \in 1..Len(caps) |-> IF i >= lo /\ i <= hi THEN Undefined ELSE caps[i]]

\* Atom? tries the atom first, Atom?? tries skipping it first
Optional(greedy, once, skip) ==
  IF greedy THEN once \o skip ELSE skip \o once

MatchTerm(t, s, pos, caps) ==
  CASE t.type = "char" ->
         IF pos <= Len(s) /\ s[pos] = t.c
         THEN << [pos |-> pos + 1, caps |-> caps] >> ELSE <<>>
    [] t.type = "group" ->
         SetCaps(MatchTerms(t.body, 1, s, pos, caps), t.idx, s, pos)
    [] t.type = "opt" ->
         Optional(t.greedy,
                  NonEmpty(MatchTerm(t.atom, s, pos,
                                     ClearCaps(caps, t.lo, t.hi)), pos),
                  << [pos |-> pos, caps |-> caps] >>)

RECURSIVE RegExpExec(_, _, _)

\* the match array of the first result of rs, if there is one
FirstMatch(re, s, start, rs) ==
  IF rs # <<>>
  THEN [matched |-> TRUE, index |-> start,
        whole |-> SubString(s, start, Head(rs).pos),
        groups |-> Head(rs).caps]
  ELSE RegExpExec(re, s, start + 1)

\* The first match at or after start: the leftmost start position wins.
RegExpExec(re, s, start) ==
  IF start > Len(s) + 1 THEN [matched |-> FALSE]
  ELSE FirstMatch(re, s, start,
                  MatchTerms(re.terms, 1, s, start,
                             [i \in 1..re.ngroups |-> Undefined]))

\* href.match(regex) for a regex without the g flag.
StringMatch(s, re) == RegExpExec(re, s, 1)

\* patternMatch[i] of the match array [whole, group 1, ..., group n]
MatchIndex(m, i) ==
  IF i = 0 THEN m.whole
  ELSE IF i <= Len(m.groups) THEN m.groups[i] ELSE Undefined

\* ------------------------------------------------------ LinkCell.tsx
UNDERLINE_OFFSET == 5

\* the cell record the grid holds: CustomCell<LinkCellProps>
VARIABLE cell
\* the call of an entry point the grid is in, with its arguments and what it
\* did; op = "none" between calls (the grid calls one entry point at a time)
VARIABLE out

vars == <<cell, out>>

\* TryResolve returning the whole match, patternMatch[0]
TryResolveWholeMatch(href, displayText) ==
  LET displayTextRegex == RegExpCompile(displayText)
  IN  IF ~displayTextRegex.ok THEN [threw |-> TRUE]
      ELSE IF href = Undefined THEN [threw |-> TRUE]
      ELSE LET patternMatch == StringMatch(href, displayTextRegex)
           IN  IF patternMatch.matched
               THEN [threw |-> FALSE, value |-> MatchIndex(patternMatch, 0)]
               ELSE [threw |-> FALSE, value |-> displayText]

\* lines 74-88, the body of the try block: threw = TRUE where it raises
\* (the RegExp constructor's SyntaxError, or the TypeError of .match on an
\* href that is undefined).
TryResolve(href, displayText) ==
  LET displayTextRegex == RegExpCompile(displayText)
  IN  IF ~displayTextRegex.ok THEN [threw |-> TRUE]
      ELSE IF href = Undefined THEN [threw |-> TRUE]
      ELSE LET patternMatch == StringMatch(href, displayTextRegex)
           IN  IF patternMatch.matched
               THEN [threw |-> FALSE, value |-> MatchIndex(patternMatch, 1)]
               ELSE [threw |-> FALSE, value |-> displayText]

\* getLinkDisplayValue without the try / catch
getLinkDisplayValueNoCatch(href, displayText) ==
  IF displayText = Undefined \/ displayText = <<>>
  THEN [threw |-> FALSE, value |-> href]
  ELSE TryResolve(href, displayText)

getLinkDisplayValue(href, displayText) ==
  IF displayText = Undefined \/ displayText = <<>>
  THEN [threw |-> FALSE, value |-> href]
  ELSE LET r == TryResolve(href, displayText)
       IN  IF r.threw THEN [threw |-> FALSE, value |-> displayText] ELSE r

\* ctx.measureText(text).width and measureTextCached(text, ctx, font).width
TextWidth(text) == Len(StringOf(text))

font(theme) == theme.baseFontStyle \o " " \o theme.fontFamily

blend(a, b) == "blend(" \o a \o "," \o b \o ")"

\* onClickSelect whose zone leaves out the padding
onClickSelectNoPadding(e) ==
  IF ~e.ctx THEN Undefined
  ELSE LET rectHoverX == e.bounds.x + e.posX
           textWidth == TextWidth(getLinkDisplayValue(e.cell.data.href,
                                    e.cell.data.displayText).value)
           isHovered == rectHoverX > e.bounds.x
                          /\ rectHoverX < e.bounds.x + textWidth
       IN  IF isHovered THEN e.cell.data.href ELSE Undefined

\* onClickSelect: the href to open, or Undefined.  e.ctx is whether
\* canvas.getContext("2d") gave a context.
onClickSelect(e) ==
  IF ~e.ctx THEN Undefined
  ELSE LET hoverX == e.posX
           rect == e.bounds
           href == e.cell.data.href
           displayText == e.cell.data.displayText
           rectHoverX == rect.x + hoverX
           textWidth == TextWidth(getLinkDisplayValue(href, displayText).value)
                          + e.theme.cellHorizontalPadding * 2
           isHovered == rectHoverX > rect.x /\ rectHoverX < rect.x + textWidth
       IN  IF isHovered THEN href ELSE Undefined

\* draw's hover test starting at the text instead of the cell's left edge
drawIsHoveredFromText(args) ==
  LET hoverX == IF args.hoverX = <<>> THEN -100 ELSE args.hoverX[1]
      rectHoverX == args.rect.x + hoverX
  IN  /\ rectHoverX > args.rect.x + args.theme.cellHorizontalPadding
      /\ rectHoverX < args.rect.x + args.rect.width

\* draw's hover test (lines 97, 107, 114).  args.hoverX is <<x>>, or <<>>
\* when the host passes none, and then defaults to -100.
drawIsHovered(args) ==
  LET hoverX == IF args.hoverX = <<>> THEN -100 ELSE args.hoverX[1]
      rectHoverX == args.rect.x + hoverX
  IN  rectHoverX > args.rect.x /\ rectHoverX < args.rect.x + args.rect.width

\* draw painting the link text before the halo
drawTextFirst(args, c) ==
  LET theme == args.theme
      displayValue == getLinkDisplayValue(c.data.href, c.data.displayText).value
      drawX == args.rect.x + theme.cellHorizontalPadding
      drawY == 2 * args.rect.y + args.rect.height + 2 * args.middleCenterBias
      underlineY == 2 * ((drawY + 2 * UNDERLINE_OFFSET) \div 2) + 1
      bg == IF args.highlighted THEN blend(theme.accentLight, theme.bgCell)
            ELSE theme.bgCell
      halo(dx) == [call |-> "fillText", text |-> displayValue,
                   x |-> drawX + dx, y |-> drawY, style |-> bg]
      hover == << [call |-> "moveTo", x |-> drawX, y |-> underlineY],
                  [call |-> "lineTo", x |-> drawX + TextWidth(displayValue),
                   y |-> underlineY],
                  [call |-> "stroke", style |-> theme.linkColor],
                  halo(-1), halo(1), halo(-2), halo(2) >>
      final == << [call |-> "fillText", text |-> displayValue, x |-> drawX,
                   y |-> drawY, style |-> theme.linkColor] >>
  IN  IF c.data.href = Undefined THEN [drawn |-> FALSE, canvas |-> <<>>]
      ELSE [drawn |-> TRUE,
            canvas |-> << [call |-> "font=", style |-> font(theme)] >>
                         \o final
                         \o (IF drawIsHovered(args) THEN hover ELSE <<>>)
                         \o << [call |-> "closePath"] >>]

\* draw: whether it reports "drawn", and what it does to the canvas context
\* in order: the method calls, each with the stroke or fill style in force,
\* and the assignment of ctx.font.  x is in pixels; y is in half pixels, so
\* that rect.height / 2 and the + 0.5 of the underline are exact.
draw(args, c) ==
  LET href == c.data.href
      displayText == c.data.displayText
      theme == args.theme
      displayValue == getLinkDisplayValue(href, displayText).value
      xPad == theme.cellHorizontalPadding
      drawX == args.rect.x + xPad
      drawY == 2 * args.rect.y + args.rect.height + 2 * args.middleCenterBias
      underlineY == 2 * ((drawY + 2 * UNDERLINE_OFFSET) \div 2) + 1
      bg == IF args.highlighted THEN blend(theme.accentLight, theme.bgCell)
            ELSE theme.bgCell
      halo(dx) == [call |-> "fillText", text |-> displayValue,
                   x |-> drawX + dx, y |-> drawY, style |-> bg]
      hover == << [call |-> "moveTo", x |-> drawX, y |-> underlineY],
                  [call |-> "lineTo", x |-> drawX + TextWidth(displayValue),
                   y |-> underlineY],
                  [call |-> "stroke", style |-> theme.linkColor],
                  halo(-1), halo(1), halo(-2), halo(2) >>
      final == << [call |-> "fillText", text |-> displayValue, x |-> drawX,
                   y |-> drawY, style |-> theme.linkColor],
                  [call |-> "closePath"] >>
  IN  IF href = Undefined THEN [drawn |-> FALSE, canvas |-> <<>>]
      ELSE [drawn |-> TRUE,
            canvas |-> << [call |-> "font=", style |-> font(theme)] >>
                         \o (IF drawIsHovered(args) THEN hover ELSE <<>>)
                         \o final]

\* measure without the guard on an undefined href
measureNoGuard(c, theme) ==
  TextWidth(getLinkDisplayValue(c.data.href, c.data.displayText).value)
    + theme.cellHorizontalPadding * 2

measure(c, theme) ==
  IF c.data.href = Undefined THEN 0
  ELSE TextWidth(getLinkDisplayValue(c.data.href, c.data.displayText).value)
         + theme.cellHorizontalPadding * 2

\* onSelect: the url handed to window.open(url, "_blank"), Undefined if none
onSelect(e) ==
  LET redirectLink == onClickSelect(e)
  IN  IF redirectLink # Undefined THEN redirectLink ELSE Undefined

\* onDelete clearing href only
onDeleteHrefOnly(c) ==
  [c EXCEPT !.data = [c.data EXCEPT !.href = <<>>]]

onDelete(c) ==
  [c EXCEPT !.data = [c.data EXCEPT !.displayText = <<>>, !.href = <<>>]]

\* the change handler without the copyData line
editorOnChangeNoCopyData(value, e) ==
  [value EXCEPT !.data = [value.data EXCEPT !.href = e]]

\* the record the overlay editor's change event e hands to the host's onChange
editorOnChange(value, e) ==
  [value EXCEPT !.copyData = e,
                !.data = [value.data EXCEPT !.href = e,
                                            !.displayText = value.data.displayText]]

\* the props provideEditor gives to UriOverlayEditor
provideEditor(value) ==
  [uri |-> value.data.href,
   preview |-> getLinkDisplayValue(value.data.href, value.data.displayText).value,
   readonly |-> (value.readonly = TRUE)]

\* onPaste without the comparison with the current href
onPasteAlways(toPaste, cellData) ==
  [changed |-> TRUE, data |-> [cellData EXCEPT !.href = toPaste]]

\* onPaste: changed = FALSE is the undefined it returns for "no change",
\* otherwise data is the new cell data
onPaste(toPaste, cellData) ==
  IF toPaste = cellData.href THEN [changed |-> FALSE]
  ELSE [changed |-> TRUE, data |-> [cellData EXCEPT !.href = toPaste]]

\* ------------------------------------------------------------ the inputs
HrefChars == {"a", "b"}
PatChars == PatternCharacter \cup SyntaxCharacter

Hrefs == Strings(HrefChars, MaxHrefLen) \cup {Undefined}
DisplayTexts == Strings(PatChars, MaxPatLen) \cup {Undefined}

Texts == Strings(HrefChars, MaxTextLen)
\* the display texts of the grid's cells: none, a pattern with a group, a
\* pattern without one, a pattern whose group is optional, a broken pattern
CellDisplayTexts ==
  {Undefined, <<"(", "a", ")">>, <<"a">>, <<"(", "b", ")", "?">>, <<"(">>}

Cell(href, displayText, readonly) ==
  [kind |-> "custom", allowOverlay |-> TRUE, readonly |-> readonly,
   copyData |-> IF href = Undefined THEN <<>> ELSE href,
   data |-> [kind |-> "link-cell", href |-> href, displayText |-> displayText]]

Theme(pad) ==
  [cellHorizontalPadding |-> pad, linkColor |-> "linkColor",
   bgCell |-> "bgCell", accentLight |-> "accentLight",
   baseFontStyle |-> "13px", fontFamily |-> "sans-serif"]

Themes == {Theme(pad) : pad \in 0..1}
Rects == {[x |-> 0, y |-> 0, width |-> 1, height |-> 3],
          [x |-> 2, y |-> 1, width |-> 3, height |-> 4]}
\* the pointer's horizontal offsets within a cell of bounds rect
PosXs(rect) == 0..rect.width

\* ------------------------------------------------ the grid and its cell
Init ==
  /\ \E href \in Texts \cup {Undefined}, displayText \in CellDisplayTexts,
        readonly \in BOOLEAN :
       cell = Cell(href, displayText, readonly)
  /\ out = [op |-> "none"]

Idle == out.op = "none"

Draw ==
  /\ Idle
  /\ \E rect \in Rects, theme \in Themes, highlighted \in BOOLEAN :
     \E hoverX \in {<<>>} \cup {<<x>> : x \in PosXs(rect)} :
     LET args == [rect |-> rect, theme |-> theme, hoverX |-> hoverX,
                  highlighted |-> highlighted, middleCenterBias |-> 0]
         r == draw(args, cell)
     IN  /\ out' = [op |-> "draw", args |-> args, cell |-> cell,
                    drawn |-> r.drawn, canvas |-> r.canvas]
         /\ UNCHANGED cell

Measure ==
  /\ Idle
  /\ \E theme \in Themes :
       /\ out' = [op |-> "measure", theme |-> theme, cell |-> cell,
                  result |-> measure(cell, theme)]
       /\ UNCHANGED cell

OnSelect ==
  /\ Idle
  /\ \E rect \in Rects, theme \in Themes, ctx \in BOOLEAN :
     \E posX \in PosXs(rect) :
       LET e == [posX |-> posX, bounds |-> rect, cell |-> cell,
                 theme |-> theme, ctx |-> ctx]
       IN  /\ out' = [op |-> "onSelect", e |-> e, cell |-> cell,
                      opened |-> onSelect(e)]
           /\ UNCHANGED cell

OnDelete ==
  /\ Idle
  /\ out' = [op |-> "onDelete", cell |-> cell, result |-> onDelete(cell)]
  /\ cell' = onDelete(cell)

\* the grid stores the data onPaste returns, and keeps its own on "no change"
OnPaste ==
  /\ Idle
  /\ \E toPaste \in Texts :
       LET r == onPaste(toPaste, cell.data)
       IN  /\ out' = [op |-> "onPaste", toPaste |-> toPaste, cell |-> cell,
                      result |-> r]
           /\ cell' = IF r.changed THEN [cell EXCEPT !.data = r.data] ELSE cell

\* the editor is rendered on the cell and emits a change event with text e
ProvideEditor ==
  /\ Idle
  /\ \E e \in Texts :
       /\ out' = [op |-> "provideEditor", cell |-> cell, e |-> e,
                  props |-> provideEditor(cell),
                  result |-> editorOnChange(cell, e)]
       /\ cell' = editorOnChange(cell, e)

\* the entry point returns to the grid
Return ==
  /\ ~Idle
  /\ out' = [op |-> "none"]
  /\ UNCHANGED cell

Next ==
  \/ Draw \/ Measure \/ OnSelect \/ OnDelete \/ OnPaste \/ ProvideEditor
  \/ Return

Spec == Init /\ [][Next]_vars

\* --------------------------- getLinkDisplayValue called on its own inputs
InitResolve ==
  /\ \E href \in Hrefs, displayText \in DisplayTexts :
       cell = Cell(href, displayText, FALSE)
  /\ out = [op |-> "none"]

Resolve ==
  LET r == getLinkDisplayValue(cell.data.href, cell.data.displayText)
  IN  /\ Idle
      /\ out' = [op |-> "getLinkDisplayValue", href |-> cell.data.href,
                 displayText |-> cell.data.displayText,
                 threw |-> r.threw,
                 value |-> IF r.threw THEN Undefined ELSE r.value]
      /\ UNCHANGED cell

NextResolve == Resolve

SpecResolve == InitResolve /\ [][NextResolve]_vars

\* ============================================================ properties
\* What the regular expression machinery says of a call's inputs,
\* independently of getLinkDisplayValue.
IsPattern(displayText) ==
  displayText # Undefined /\ displayText # <<>> /\ RegExpCompile(displayText).ok

PatternMatches(href, displayText) ==
  /\ IsPattern(displayText)
  /\ href # Undefined
  /\ StringMatch(href, RegExpCompile(displayText)).matched

GroupCount(displayText) == RegExpCompile(displayText).ngroups

FirstGroup(href, displayText) ==
  MatchIndex(StringMatch(href, RegExpCompile(displayText)), 1)

WholeMatch(href, displayText) ==
  MatchIndex(StringMatch(href, RegExpCompile(displayText)), 0)

Resolved == out.op = "getLinkDisplayValue"

\* C1 as stated: whenever displayText compiles, has a capturing group and
\* matches href, getLinkDisplayValue returns a text, the one captured by the
\* first group.
C1_AnyGroupReturnsCapturedText ==
  (Resolved /\ PatternMatches(out.href, out.displayText)
     /\ GroupCount(out.displayText) >= 1)
    => /\ ~out.threw
       /\ out.value # Undefined
       /\ out.value = FirstGroup(out.href, out.displayText)

\* C1, amended: whenever displayText compiles and matches href and its first
\* capturing group took part in the match, getLinkDisplayValue returns
\* exactly the text that group captured (not the whole match).
C1_FirstGroupReturned ==
  (Resolved /\ PatternMatches(out.href, out.displayText)
     /\ GroupCount(out.displayText) >= 1
     /\ FirstGroup(out.href, out.displayText) # Undefined)
    => /\ ~out.threw
       /\ out.value # Undefined
       /\ out.value = FirstGroup(out.href, out.displayText)

C1_Witness ==
  /\ Resolved /\ PatternMatches(out.href, out.displayText)
  /\ GroupCount(out.displayText) >= 1
  /\ FirstGroup(out.href, out.displayText) # Undefined
  /\ FirstGroup(out.href, out.displayText) # WholeMatch(out.href, out.displayText)
  /\ out.value = FirstGroup(out.href, out.displayText)

\* C2: whenever displayText compiles and matches href but has no capturing
\* group, or its first group took no part in the match, getLinkDisplayValue
\* returns displayText itself.
C2_NoUsableGroupReturnsDisplayText ==
  (Resolved /\ PatternMatches(out.href, out.displayText)
     /\ FirstGroup(out.href, out.displayText) = Undefined)
    => /\ ~out.threw
       /\ out.value = out.displayText

\* C3: whenever a non-empty displayText does not compile, or matching raises,
\* or the pattern does not match href, getLinkDisplayValue returns
\* displayText unchanged and raises nothing.
C3_FallbackToDisplayText ==
  (Resolved /\ out.displayText # Undefined /\ out.displayText # <<>>
     /\ ~PatternMatches(out.href, out.displayText))
    => /\ ~out.threw
       /\ out.value = out.displayText

C3_Witness ==
  /\ Resolved /\ out.displayText # Undefined /\ out.displayText # <<>>
  /\ ~RegExpCompile(out.displayText).ok
  /\ out.href # Undefined /\ out.href # out.displayText
  /\ out.value = out.displayText

\* draw, measure and onSelect degrade to nothing on the cell of the last call
RendersNothing ==
  /\ out.op = "draw" => ~out.drawn /\ out.canvas = <<>>
  /\ out.op = "measure" => out.result = 0
  /\ out.op = "onSelect" => out.opened = Undefined

\* C4 as stated: a cell whose href is undefined or the empty string draws
\* nothing, measures 0 and opens nothing, wherever the pointer is.
C4_MissingOrEmptyHrefRendersNothing ==
  (out.op \in {"draw", "measure", "onSelect"}
     /\ out.cell.data.href \in {Undefined, <<>>})
    => RendersNothing

\* C4, amended: a cell whose href is undefined draws nothing (no canvas
\* call, "not drawn"), measures 0 and opens nothing, wherever the pointer is.
C4_UndefinedHrefRendersNothing ==
  (out.op \in {"draw", "measure", "onSelect"}
     /\ out.cell.data.href = Undefined)
    => RendersNothing

C4_Witness ==
  /\ out.op = "onSelect" /\ out.cell.data.href = Undefined
  /\ out.e.ctx /\ out.e.posX > 0
  /\ out.e.posX < TextWidth(getLinkDisplayValue(out.cell.data.href,
                              out.cell.data.displayText).value)
  /\ out.opened = Undefined

MeasureContract ==
  out.op = "measure" =>
    out.result =
      IF out.cell.data.href = Undefined THEN 0
      ELSE TextWidth(getLinkDisplayValue(out.cell.data.href,
                                         out.cell.data.displayText).value)
             + 2 * out.theme.cellHorizontalPadding

\* C5 as stated: measure is 0 for an undefined href and otherwise the text
\* width plus twice the padding, and a click at offset x opens href exactly
\* when 0 < x < measure(cell).
C5_ClickOpensIffInsideMeasure ==
  /\ MeasureContract
  /\ out.op = "onSelect" =>
       out.opened =
         IF 0 < out.e.posX /\ out.e.posX < measure(out.cell, out.e.theme)
         THEN out.cell.data.href ELSE Undefined

\* C5, amended: measure is 0 for an undefined href and otherwise the text
\* width plus twice the padding, and a click at offset x opens href exactly
\* when a 2d canvas context could be obtained and 0 < x < measure(cell);
\* without a context no click opens anything.
C5_ClickOpensIffContextAndInsideMeasure ==
  /\ MeasureContract
  /\ out.op = "onSelect" =>
       out.opened =
         IF out.e.ctx /\ 0 < out.e.posX
              /\ out.e.posX < measure(out.cell, out.e.theme)
         THEN out.cell.data.href ELSE Undefined

C5_Witness ==
  /\ out.op = "onSelect" /\ out.opened # Undefined
  /\ out.e.posX + 1 = measure(out.cell, out.e.theme)
  /\ out.e.theme.cellHorizontalPadding > 0

\* the arguments draw gets for the pointer and geometry of a click e
DrawArgsOf(e) ==
  [rect |-> e.bounds, theme |-> e.theme, hoverX |-> <<e.posX>>,
   highlighted |-> FALSE, middleCenterBias |-> 0]

ActivationWidth(e) ==
  TextWidth(getLinkDisplayValue(e.cell.data.href, e.cell.data.displayText).value)
    + 2 * e.theme.cellHorizontalPadding

\* C6 as stated: the activation zone of onSelect is never wider than the
\* hover zone of draw, and every offset that activates the link is hovered.
C6_ActivationWithinHover ==
  (out.op = "onSelect" /\ out.opened # Undefined)
    => /\ drawIsHovered(DrawArgsOf(out.e))
       /\ ActivationWidth(out.e) <= out.e.bounds.width

\* C6, amended: every pointer offset inside the cell (x < rect.width) that
\* activates the link in onSelect is hovered in draw.
C6_ActivationInsideCellIsHovered ==
  (out.op = "onSelect" /\ out.opened # Undefined
     /\ out.e.posX < out.e.bounds.width)
    => drawIsHovered(DrawArgsOf(out.e))

C6_Witness ==
  /\ out.op = "onSelect" /\ out.opened # Undefined
  /\ out.e.posX < out.e.bounds.width
  /\ out.e.theme.cellHorizontalPadding > 0
  /\ ActivationWidth(out.e) > out.e.bounds.width

\* C7: onDelete returns the record with data.href and data.displayText both
\* empty and every other field as it was.
C7_DeleteClearsBoth ==
  out.op = "onDelete" =>
    /\ out.result.data.href = <<>>
    /\ out.result.data.displayText = <<>>
    /\ out.result.data.kind = out.cell.data.kind
    /\ DOMAIN out.result.data = DOMAIN out.cell.data
    /\ DOMAIN out.result = DOMAIN out.cell
    /\ \A f \in DOMAIN out.cell \ {"data"} : out.result[f] = out.cell[f]

C7_Witness ==
  /\ out.op = "onDelete"
  /\ out.cell.data.href \notin {Undefined, <<>>}
  /\ out.cell.data.displayText \notin {Undefined, <<>>}
  /\ out.cell.readonly
  /\ out.result.data.href = <<>>

PasteContract ==
  out.op = "onPaste" =>
    /\ out.result.changed <=> out.toPaste # out.cell.data.href
    /\ out.result.changed =>
         /\ out.result.data.href = out.toPaste
         /\ out.result.data.displayText = out.cell.data.displayText
         /\ out.result.data.kind = out.cell.data.kind
         /\ DOMAIN out.result.data = DOMAIN out.cell.data

\* pasting the same text again, on the cell the grid holds after the paste
PasteAgain == onPaste(out.toPaste, cell.data)

\* C8: onPaste signals "no change" exactly when the text equals data.href
\* and otherwise returns the data with href replaced and the rest kept; the
\* second of two pastes of the same text in a row signals "no change".
C8_PasteNoChangeIffSame ==
  /\ PasteContract
  /\ out.op = "onPaste" => ~PasteAgain.changed

C8_Witness ==
  /\ out.op = "onPaste" /\ out.result.changed
  /\ out.cell.data.href \notin {Undefined, <<>>}
  /\ out.cell.data.displayText \notin {Undefined, <<>>}
  /\ out.toPaste # <<>>
  /\ ~PasteAgain.changed

\* C9: the record the editor's change event hands to onChange has
\* data.href and copyData equal to the edited text, displayText as before
\* and every other field as before.
C9_EditorChangeRecord ==
  out.op = "provideEditor" =>
    /\ out.result.data.href = out.e
    /\ out.result.copyData = out.e
    /\ out.result.data.displayText = out.cell.data.displayText
    /\ out.result.data.kind = out.cell.data.kind
    /\ DOMAIN out.result.data = DOMAIN out.cell.data
    /\ DOMAIN out.result = DOMAIN out.cell
    /\ \A f \in DOMAIN out.cell \ {"data", "copyData"} :
         out.result[f] = out.cell[f]

C9_Witness ==
  /\ out.op = "provideEditor"
  /\ out.e # out.cell.data.href /\ out.e # out.cell.copyData
  /\ out.cell.data.displayText \notin {Undefined, <<>>}
  /\ out.result.copyData = out.e

\* the stroke and fillText calls among the canvas calls, in order, with x
\* relative to the true draw position
IsPaint(c) == c.call \in {"stroke", "fillText"}

Paints(canvas, drawX) ==
  LET ps == SelectSeq(canvas, IsPaint)
  IN  [i \in 1..Len(ps) |->
         IF ps[i].call = "stroke" THEN [call |-> "stroke", style |-> ps[i].style]
         ELSE [call |-> "fillText", text |-> ps[i].text,
               dx |-> ps[i].x - drawX, style |-> ps[i].style]]

InHoverZone(args) ==
  /\ args.hoverX # <<>>
  /\ args.hoverX[1] > 0
  /\ args.hoverX[1] < args.rect.width

ExpectedPaints(args, c) ==
  LET text == getLinkDisplayValue(c.data.href, c.data.displayText).value
      bg == IF args.highlighted
            THEN blend(args.theme.accentLight, args.theme.bgCell)
            ELSE args.theme.bgCell
      fill(dx, style) == [call |-> "fillText", text |-> text, dx |-> dx,
                          style |-> style]
  IN  (IF InHoverZone(args)
       THEN << [call |-> "stroke", style |-> args.theme.linkColor],
               fill(-1, bg), fill(1, bg), fill(-2, bg), fill(2, bg) >>
       ELSE <<>>)
        \o << fill(0, args.theme.linkColor) >>

\* C10: draw on an undefined href reports "not drawn" and makes no canvas
\* call; otherwise it reports "drawn" and paints, in this order, when the
\* pointer is in the hover zone the underline stroke in the link color and
\* the text four times at -1, +1, -2, +2 in the background fill (blended
\* with the accent iff highlighted), and always last the text once at the
\* true position in the link color.
C10_DrawOrder ==
  out.op = "draw" =>
    IF out.cell.data.href = Undefined
    THEN ~out.drawn /\ out.canvas = <<>>
    ELSE /\ out.drawn
         /\ Paints(out.canvas,
                   out.args.rect.x + out.args.theme.cellHorizontalPadding)
              = ExpectedPaints(out.args, out.cell)

C10_Witness ==
  /\ out.op = "draw" /\ out.drawn
  /\ InHoverZone(out.args) /\ out.args.highlighted
  /\ out.cell.data.displayText \notin {Undefined, <<>>}
  /\ Len(out.canvas) = 10
====
